---- MODULE Spec2Model ----
(***************************************************************************)
(* A state-machine model of biosignalsnotebooks/load.py: the `load` call   *)
(* (file-type detection, shape/type check of the selection, header         *)
(* parsing, device and channel membership checks, extraction, output) and  *)
(* the private helpers it calls.  One call of `load` is one run            *)
(* Call -> ShapeCheck -> ReadHeader -> DevCheck -> ChnCheck -> Extract ->  *)
(* Assemble; an exception raised in a stage ends the call at once.         *)
(***************************************************************************)
EXTENDS Integers, Sequences, FiniteSets, TLC

(***************************************************************************)
(* Bounds of the model.                                                    *)
(***************************************************************************)
\* longest `devices` list a caller passes (the `channels` list may be one longer)
MaxDevs == 2
\* largest number of sample rows of a text file / sample blocks of an h5 dataset
MaxRows == 2

(***************************************************************************)
(* Python values of the arguments: None, int, str and list, tagged so that *)
(* isinstance() can be modelled.                                           *)
(***************************************************************************)
PyNone == [t |-> "None"]
PyInt(n) == [t |-> "int", i |-> n]
PyStr(s) == [t |-> "str", s |-> s]
PyList(q) == [t |-> "list", l |-> q]

\* all sequences over S of length at most n
SeqUpTo(S, n) == UNION {[1..k -> S] : k \in 0..n}

\* the elements of a sequence
Range(q) == {q[k] : k \in 1..Len(q)}

\* device ids a caller names: the two devices of the files below and a non-string
DevVals == {PyStr("AA:BB"), PyStr("CC:DD"), PyInt(7)}

\* the `devices` arguments: None, a list, or a bare string (not a list)
DevArgs ==
    {PyNone, PyStr("AA:BB")} \cup {PyList(q) : q \in SeqUpTo(DevVals, MaxDevs)}

\* the channel lists of one device a caller writes: ids 1 and 2 in either
\* order, and a list holding a non-integer
ChnLists ==
    { <<>>, <<PyInt(1)>>, <<PyInt(2)>>, <<PyInt(1), PyInt(2)>>,
      <<PyInt(2), PyInt(1)>>, <<PyStr("x")>> }

\* nested `channels`: one list per device
NestedChn == SeqUpTo({PyList(q) : q \in ChnLists}, MaxDevs)

\* the `channels` arguments: None, a bare string, a flat list, a nested list,
\* and a nested list with one bare integer before or after its sublists
ChnArgs ==
    {PyNone, PyStr("1")}
    \cup {PyList(q) : q \in ChnLists}
    \cup {PyList(q) : q \in NestedChn}
    \cup {PyList(q \o <<PyInt(1)>>) : q \in NestedChn}
    \cup {PyList(<<PyInt(1)>> \o q) : q \in NestedChn}

(***************************************************************************)
(* Files.  A path is the sequence of its dot-separated parts; `mime` is    *)
(* the subtype libmagic reports for the content.                           *)
(***************************************************************************)
Paths ==
    { [parts |-> <<"rec", "txt">>, mime |-> "plain"],
      [parts |-> <<"rec">>, mime |-> "plain"],
      [parts |-> <<"rec", "h5">>, mime |-> "x-hdf"],
      [parts |-> <<"rec", "edf">>, mime |-> "octet-stream"],
      [parts |-> <<"rec">>, mime |-> "octet-stream"],
      [parts |-> <<"rec", "csv">>, mime |-> "csv"] }

\* _file_type: the text after the last dot, else the sniffed subtype
FileType(file) ==
    IF Len(file.parts) > 1 THEN file.parts[Len(file.parts)] ELSE file.mime

\* the read libmagic does of a file without extension
SniffReads(file) == IF Len(file.parts) > 1 THEN <<>> ELSE <<"sniff">>

TxtTypes == {"txt", "plain", "bat"}
H5Types == {"h5", "x-hdf", "a"}
EdfTypes == {"edf", "octet-stream"}

(***************************************************************************)
(* File contents.  A text file has a header line (a dict literal keyed by  *)
(* device) and `rows` sample rows over the concatenated columns of all     *)
(* devices; an h5 file has one group per device with a "raw" group of one  *)
(* dataset per channel.                                                    *)
(***************************************************************************)
RawAB == [mac |-> "AA:BB", channels |-> <<1, 2>>, label |-> <<"A1", "A2">>,
          column |-> <<"nSeq", "DI", "A1", "A2">>]
RawCD == [mac |-> "CC:DD", channels |-> <<1>>, label |-> <<"A1">>,
          column |-> <<"nSeq", "A1">>]
\* a device whose label "A3" is not one of its columns
RawNoLabel == [mac |-> "AA:BB", channels |-> <<1>>, label |-> <<"A3">>,
               column |-> <<"nSeq", "A1">>]

\* a device whose labels are listed in another order than its columns
RawBA == [mac |-> "AA:BB", channels |-> <<2, 1>>, label |-> <<"A2", "A1">>,
          column |-> <<"nSeq", "DI", "A1", "A2">>]

\* hdr: the state of the file's second line; badCol: a column holding a
\* non-numeric cell (-1: none)
TxtContents ==
    {[kind |-> "txt", hdr |-> "ok", raw |-> <<RawAB, RawCD>>, rows |-> r, badCol |-> -1]
        : r \in 1..MaxRows}
    \cup
    {[kind |-> "txt", hdr |-> "ok", raw |-> <<RawAB>>, rows |-> MaxRows, badCol |-> -1],
     [kind |-> "txt", hdr |-> "ok", raw |-> <<RawAB>>, rows |-> MaxRows, badCol |-> 3],
     [kind |-> "txt", hdr |-> "ok", raw |-> <<RawCD, RawBA>>, rows |-> MaxRows, badCol |-> -1],
     [kind |-> "txt", hdr |-> "ok", raw |-> <<RawNoLabel>>, rows |-> MaxRows, badCol |-> -1],
     [kind |-> "txt", hdr |-> "absent", raw |-> <<>>, rows |-> 0, badCol |-> -1],
     [kind |-> "txt", hdr |-> "malformed", raw |-> <<>>, rows |-> 1, badCol |-> -1]}

\* raw: whether the group has its "raw" group with one dataset per channel
H5Contents ==
    {[kind |-> "h5", groups |-> <<[mac |-> "AA:BB", channels |-> <<1, 2, 3>>, raw |-> TRUE]>>,
      rows |-> r] : r \in 1..MaxRows}
    \cup
    {[kind |-> "h5", groups |-> <<[mac |-> "AA:BB", channels |-> <<1, 2>>, raw |-> TRUE],
                                  [mac |-> "CC:DD", channels |-> <<1>>, raw |-> TRUE]>>,
      rows |-> MaxRows],
     [kind |-> "h5", groups |-> <<[mac |-> "AA:BB", channels |-> <<1>>, raw |-> FALSE]>>,
      rows |-> MaxRows],
     \* a container without any group: file_temp.keys() is empty
     [kind |-> "h5", groups |-> <<>>, rows |-> 0]}

NoContent == [kind |-> "none"]

\* what a path may hold, by its detected type
Contents(file_type) ==
    IF file_type \in TxtTypes THEN TxtContents
    ELSE IF file_type \in H5Types THEN H5Contents
    ELSE {NoContent}

\* the cell of sample row r (from 1) and column c (from 0) of a text file
Cell(r, c) == 10 * c + r

\* the block of the dataset raw/channel_<chn> at row r: one sample
Block(chn, r) == <<100 * chn + r>>

(***************************************************************************)
(* read_header                                                             *)
(***************************************************************************)
\* numpy.where(numpy.array(column) == chn_label)[0][0]: first index, from 0
IndexOf(column, chn_label) ==
    CHOOSE k \in 0..(Len(column) - 1) :
        /\ column[k + 1] = chn_label
        /\ \A j \in 0..(k - 1) : column[j + 1] # chn_label

\* the keys of a dict filled in the order of q: first occurrences, in order
RECURSIVE KeysInOrder(_)
KeysInOrder(q) ==
    IF q = <<>> THEN <<>>
    ELSE LET front == KeysInOrder(SubSeq(q, 1, Len(q) - 1))
             last == q[Len(q)]
         IN IF last \in Range(front) THEN front ELSE Append(front, last)

\* the last position of key c in q: the assignment a dict keeps
LastPos(q, c) == CHOOSE k \in 1..Len(q) : q[k] = c /\ \A j \in (k + 1)..Len(q) : q[j] # c

\* column labels keyed by the place of the channel in the list (chn_nbr)
\* instead of by the channel
TxtColumnLabelsByPlace(dev, col_nbr) ==
    [chn_nbr \in 0..(Len(dev.channels) - 1) |->
        PyInt(col_nbr + IndexOf(dev.column, dev.label[chn_nbr + 1]))]

\* column_labels of one device of a text header, given the running offset
TxtColumnLabels(dev, col_nbr) ==
    [chn \in Range(dev.channels) |->
        PyInt(col_nbr + IndexOf(dev.column, dev.label[LastPos(dev.channels, chn)]))]

\* a standardization loop advancing col_nbr by the number of labels of the
\* device instead of the number of its columns
RECURSIVE TxtStandardizeByLabels(_, _, _)
TxtStandardizeByLabels(raw, k, col_nbr) ==
    IF k > Len(raw) THEN <<>>
    ELSE <<[mac |-> raw[k].mac,
            channels |-> raw[k].channels,
            keys |-> KeysInOrder(raw[k].channels),
            labels |-> TxtColumnLabels(raw[k], col_nbr)]>>
         \o TxtStandardizeByLabels(raw, k + 1, col_nbr + Len(raw[k].label))

\* the standardization loop of the text header: devices in header order,
\* col_nbr accumulating the column count of the devices before
RECURSIVE TxtStandardize(_, _, _)
TxtStandardize(raw, k, col_nbr) ==
    IF k > Len(raw) THEN <<>>
    ELSE <<[mac |-> raw[k].mac,
            channels |-> raw[k].channels,
            keys |-> KeysInOrder(raw[k].channels),
            labels |-> TxtColumnLabels(raw[k], col_nbr)]>>
         \o TxtStandardize(raw, k + 1, col_nbr + Len(raw[k].column))

\* whether every label of every device is one of the device's columns
LabelsFound(raw) ==
    \A k \in 1..Len(raw) : \A n \in 1..Len(raw[k].channels) :
        /\ n <= Len(raw[k].label)
        /\ raw[k].label[n] \in Range(raw[k].column)

\* column_labels of one group of an h5 file: "channel_<id>"
H5ColumnLabels(grp) ==
    [chn \in Range(grp.channels) |-> PyStr("channel_" \o ToString(chn))]

H5Standardize(groups) ==
    [k \in 1..Len(groups) |->
        [mac |-> groups[k].mac,
         channels |-> groups[k].channels,
         keys |-> KeysInOrder(groups[k].channels),
         labels |-> H5ColumnLabels(groups[k])]]

NoErr == [exc |-> "", at |-> "", msg |-> ""]
Raise(exc, at, msg) == [exc |-> exc, at |-> at, msg |-> msg]

\* read_header: the header, the error raised, the handles left open and the
\* reads done
ReadHeaderResult(file_type, content) ==
    IF file_type \in TxtTypes THEN
        IF content.hdr = "absent" THEN
            \* readlines()[1] raises before file_temp.close()
            [header |-> <<>>, err |-> Raise("IndexError", "read_header", "no header line"),
             open |-> {"txt_header"}, reads |-> <<"header">>]
        ELSE IF content.hdr = "malformed" THEN
            [header |-> <<>>, err |-> Raise("ValueError", "read_header", "literal_eval"),
             open |-> {}, reads |-> <<"header">>]
        ELSE IF ~LabelsFound(content.raw) THEN
            [header |-> <<>>, err |-> Raise("IndexError", "read_header", "label not a column"),
             open |-> {}, reads |-> <<"header">>]
        ELSE
            [header |-> TxtStandardize(content.raw, 1, 0), err |-> NoErr,
             open |-> {}, reads |-> <<"header">>]
    ELSE IF file_type \in H5Types THEN
        IF \E k \in 1..Len(content.groups) :
               ~content.groups[k].raw /\ content.groups[k].channels # <<>> THEN
            \* .get("raw") is None: raised before file_temp.close()
            [header |-> <<>>, err |-> Raise("AttributeError", "read_header", "no raw group"),
             open |-> {"h5_header"}, reads |-> <<"header">>]
        ELSE
            [header |-> H5Standardize(content.groups), err |-> NoErr,
             open |-> {}, reads |-> <<"header">>]
    ELSE
        [header |-> <<>>,
         err |-> Raise("RuntimeError", "read_header", "type not a predefined format"),
         open |-> {}, reads |-> <<>>]


(***************************************************************************)
(* Selection validators                                                    *)
(***************************************************************************)
\* _is_instance(int, element, condition="all"): every element of the
\* iterable is an int (the characters of a str are not)
IsInstanceAllInt(element) ==
    IF element.t = "list" THEN \A k \in 1..Len(element.l) : element.l[k].t = "int"
    ELSE IF element.t = "str" THEN element.s = ""
    ELSE FALSE

\* sum(isinstance(i, list) for i in channels)
CountLists(q) == Cardinality({k \in 1..Len(q) : q[k].t = "list"})

\* the inner loop of _check_shape_and_type over channels[dev_nbr]
ChannelsAreInt(sub) ==
    IF sub.t \in {"int", "None"} THEN
        Raise("TypeError", "_check_shape_and_type", "not iterable")
    ELSE IF IsInstanceAllInt(sub) THEN NoErr
    ELSE Raise("RuntimeError", "_check_shape_and_type", "channel not an integer")

\* the loop of _check_shape_and_type over the devices, from device k on
RECURSIVE ShapeLoop(_, _, _)
ShapeLoop(devs, chns, k) ==
    IF k > Len(devs) THEN NoErr
    ELSE IF devs[k].t # "str" THEN
        Raise("RuntimeError", "_check_shape_and_type", "device not a string")
    ELSE LET e == ChannelsAreInt(chns[k])
         IN IF e # NoErr THEN e ELSE ShapeLoop(devs, chns, k + 1)

\* _check_shape_and_type(devices, channels): the error it raises, or NoErr
CheckShapeAndType(devices, channels) ==
    IF devices.t = channels.t THEN
        IF devices.t = "None" THEN NoErr
        ELSE IF devices.t = "list" THEN
            IF Len(devices.l) = CountLists(channels.l)
            THEN ShapeLoop(devices.l, channels.l, 1)
            ELSE Raise("RuntimeError", "_check_shape_and_type", "shapes differ")
        ELSE Raise("RuntimeError", "_check_shape_and_type", "type not supported")
    ELSE IF devices.t = "None" /\ IsInstanceAllInt(channels) THEN NoErr
    ELSE Raise("RuntimeError", "_check_shape_and_type", "types differ")

\* dev_list = list(header.keys())
DevList(header) == [k \in 1..Len(header) |-> PyStr(header[k].mac)]

\* header[dev]
HeaderOf(header, mac) == header[CHOOSE k \in 1..Len(header) : header[k].mac = mac]

\* load lines 140-145: the values of `devices` and `channels` after the
\* substitution of the omitted devices
ResolvedDevices(devices, header) ==
    IF devices.t = "None" THEN PyList(DevList(header)) ELSE devices

ResolvedChannels(devices, channels) ==
    IF devices.t = "None" /\ channels.t # "None" THEN PyList(<<channels>>) ELSE channels

\* a device check looking at the first requested device only
CheckDevTypeFirstOnly(devices, dev_list) ==
    IF devices.t # "None" THEN
        IF devices.l = <<>> \/ devices.l[1] \in Range(dev_list)
        THEN [out |-> devices.l, err |-> NoErr]
        ELSE [out |-> <<>>,
              err |-> Raise("RuntimeError", "_check_dev_type", "device not available")]
    ELSE [out |-> dev_list, err |-> NoErr]

\* _check_dev_type(devices, dev_list)
CheckDevType(devices, dev_list) ==
    IF devices.t # "None" THEN
        IF \A k \in 1..Len(devices.l) : devices.l[k] \in Range(dev_list)
        THEN [out |-> devices.l, err |-> NoErr]
        ELSE [out |-> <<>>,
              err |-> Raise("RuntimeError", "_check_dev_type", "device not available")]
    ELSE [out |-> dev_list, err |-> NoErr]

\* _available_channels(devices, header): a dict keyed by device, as the
\* sequence of its keys (each device once, at its first place) and its values
AvailableChannels(devices, header) ==
    LET keys == KeysInOrder(devices)
    IN [keys |-> keys,
        val |-> [d \in Range(keys) |-> HeaderOf(header, d.s).keys]]

\* the loop of _check_chn_type from key dev_nbr (from 1) on, `acc` being
\* chn_list_standardized so far
RECURSIVE ChnLoop(_, _, _, _)
ChnLoop(channels, available, dev_nbr, acc) ==
    IF dev_nbr > Len(available.keys) THEN [out |-> acc, err |-> NoErr]
    ELSE LET avail == available.val[available.keys[dev_nbr]]
         IN IF channels.t # "None" THEN
                IF dev_nbr > Len(channels.l) THEN
                    [out |-> acc,
                     err |-> Raise("IndexError", "_check_chn_type", "channels[dev_nbr]")]
                ELSE LET sub_unit == channels.l[dev_nbr]
                     IN IF sub_unit.t \in {"int", "None"} THEN
                            [out |-> acc,
                             err |-> Raise("TypeError", "_check_chn_type", "not iterable")]
                        ELSE IF sub_unit.t = "list" /\
                                \A k \in 1..Len(sub_unit.l) :
                                    /\ sub_unit.l[k].t = "int"
                                    /\ sub_unit.l[k].i \in Range(avail)
                        THEN ChnLoop(channels, available, dev_nbr + 1,
                                     Append(acc, [k \in 1..Len(sub_unit.l) |-> sub_unit.l[k].i]))
                        ELSE [out |-> acc,
                              err |-> Raise("RuntimeError", "_check_chn_type",
                                            "channel not available")]
            ELSE ChnLoop(channels, available, dev_nbr + 1, Append(acc, avail))

\* _check_chn_type(channels, available_channels)
CheckChnType(channels, available) == ChnLoop(channels, available, 1, <<>>)


(***************************************************************************)
(* Extractors.  An array is its shape and its elements in row-major order. *)
(***************************************************************************)
\* numpy.loadtxt(fname=file, usecols=columns): the rows x columns matrix of
\* the cells, squeezed (the axes of length 1 removed)
LoadTxt(content, columns) ==
    LET R == content.rows
        K == Len(columns)
    IN [shape |-> SelectSeq(<<R, K>>, LAMBDA d : d # 1),
        flat |-> [p \in 1..(R * K) |->
                    Cell(((p - 1) \div K) + 1, columns[((p - 1) % K) + 1])]]

\* numpy.concatenate(list(dataset)): the blocks of the dataset end to end
RECURSIVE Concatenate(_, _)
Concatenate(chn, r) ==
    IF r = 0 THEN <<>> ELSE Concatenate(chn, r - 1) \o Block(chn, r)

ReadH5(content, chn) ==
    LET flat == Concatenate(chn, content.rows)
    IN [shape |-> <<Len(flat)>>, flat |-> flat]

\* the key numbered from the place before the channel id
ChKeyFromZero(chn) == "CH" \o ToString(chn - 1)

\* "CH" + str(chn)
ChKey(chn) == "CH" \o ToString(chn)

\* the loop of _load_txt over channels[dev_nbr], from its n-th channel on:
\* `columns` accumulates over the channels of the device
RECURSIVE TxtChannels(_, _, _, _, _, _, _)
TxtChannels(content, labels, chns, n, columns, dict, reads) ==
    IF n > Len(chns) THEN [dict |-> dict, err |-> NoErr, reads |-> reads]
    ELSE IF chns[n] \notin DOMAIN labels THEN
        [dict |-> dict, reads |-> reads,
         err |-> Raise("KeyError", "_load_txt", "column labels[chn]")]
    ELSE LET cols == Append(columns, labels[chns[n]].i)
         IN IF content.badCol \in Range(cols) THEN
                [dict |-> dict, reads |-> Append(reads, "extract"),
                 err |-> Raise("ValueError", "_load_txt", "could not convert")]
            ELSE TxtChannels(content, labels, chns, n + 1, cols,
                             (ChKey(chns[n]) :> LoadTxt(content, cols)) @@ dict,
                             Append(reads, "extract"))

\* the loop of _load_txt over the devices, from device dev_nbr (from 1) on
RECURSIVE TxtDevices(_, _, _, _, _, _, _)
TxtDevices(content, devices, channels, header, dev_nbr, out_dict, reads) ==
    IF dev_nbr > Len(devices) THEN [out |-> out_dict, err |-> NoErr, reads |-> reads]
    ELSE IF dev_nbr > Len(channels) THEN
        [out |-> out_dict, reads |-> reads,
         err |-> Raise("IndexError", "_load_txt", "channels[dev_nbr]")]
    ELSE LET device == devices[dev_nbr].s
             r == TxtChannels(content, HeaderOf(header, device).labels,
                              channels[dev_nbr], 1, <<>>, <<>>, reads)
         IN IF r.err # NoErr THEN [out |-> out_dict, err |-> r.err, reads |-> r.reads]
            ELSE TxtDevices(content, devices, channels, header, dev_nbr + 1,
                            (device :> r.dict) @@ out_dict, r.reads)

\* _load_txt(file, devices, channels, header)
LoadTxtFile(content, devices, channels, header) ==
    TxtDevices(content, devices, channels, header, 1, <<>>, <<>>)

\* the channels of the group of device mac that have a dataset under "raw"
H5Datasets(content, mac) ==
    UNION {IF content.groups[k].mac = mac /\ content.groups[k].raw
           THEN Range(content.groups[k].channels) ELSE {} : k \in 1..Len(content.groups)}

\* the loop of _load_h5 over channels[dev_nbr], from its n-th channel on
RECURSIVE H5Channels(_, _, _, _, _, _)
H5Channels(content, mac, chns, n, dict, reads) ==
    IF n > Len(chns) THEN [dict |-> dict, err |-> NoErr, reads |-> reads]
    ELSE IF chns[n] \notin H5Datasets(content, mac) THEN
        \* .get("channel_<chn>") is None
        [dict |-> dict, reads |-> reads,
         err |-> Raise("TypeError", "_load_h5", "no such dataset")]
    ELSE H5Channels(content, mac, chns, n + 1,
                    (ChKey(chns[n]) :> ReadH5(content, chns[n])) @@ dict,
                    Append(reads, "extract"))

\* the loop of _load_h5 over the devices, from device dev_nbr (from 1) on
RECURSIVE H5Devices(_, _, _, _, _, _)
H5Devices(content, devices, channels, dev_nbr, out_dict, reads) ==
    IF dev_nbr > Len(devices) THEN [out |-> out_dict, err |-> NoErr, reads |-> reads]
    ELSE IF dev_nbr > Len(channels) THEN
        [out |-> out_dict, reads |-> reads,
         err |-> Raise("IndexError", "_load_h5", "channels[dev_nbr]")]
    ELSE LET r == H5Channels(content, devices[dev_nbr].s, channels[dev_nbr], 1, <<>>, reads)
         IN IF r.err # NoErr THEN [out |-> out_dict, err |-> r.err, reads |-> r.reads]
            ELSE H5Devices(content, devices, channels, dev_nbr + 1,
                           (devices[dev_nbr].s :> r.dict) @@ out_dict, r.reads)

\* _load_h5(file, devices, channels)
LoadH5File(content, devices, channels) ==
    H5Devices(content, devices, channels, 1, <<>>, <<>>)

DataNone == [t |-> "None"]
DataDict(d) == [t |-> "dict", d |-> d]

(***************************************************************************)
(* The state of one call of load.                                          *)
(***************************************************************************)
VARIABLES
    pc,                 \* the stage the call is at
    file,               \* the `file` argument
    args,               \* the `devices`, `channels` and `get_header` arguments as passed
    file_type,          \* load line 124
    devices,            \* the local `devices` (rebound at line 143)
    channels,           \* the local `channels` (rebound at line 145)
    content,            \* what the file holds, known once it is read
    header,             \* load line 133
    dev_list_standard,  \* load line 148
    chn_list_standard,  \* load line 152
    data,               \* load lines 157-165
    out,                \* the value returned (lines 236-241)
    err,                \* the exception that ended the call
    handles,            \* the file handles open
    io,                 \* the reads of the file done so far, in order
    stages              \* the stages completed without an exception, in order

vars == <<pc, file, args, file_type, devices, channels, content, header,
          dev_list_standard, chn_list_standard, data, out, err, handles, io, stages>>

NoOut == [t |-> "nothing"]

\* load going on after an exception of the channel check
GotoPastChannelError(e, next) ==
    IF e = NoErr \/ e.at = "_check_chn_type" THEN next ELSE "done"

\* an exception propagates out of load; otherwise control goes on to `next`
Goto(e, next) == IF e = NoErr THEN next ELSE "done"

\* the stages completed, after a stage ended with e
Passed(e, stage) == IF e = NoErr THEN Append(stages, stage) ELSE stages

Init ==
    /\ pc = "idle"
    /\ file = [parts |-> <<>>, mime |-> ""]
    /\ args = [devices |-> PyNone, channels |-> PyNone, get_header |-> FALSE]
    /\ file_type = ""
    /\ devices = PyNone
    /\ channels = PyNone
    /\ content = NoContent
    /\ header = <<>>
    /\ dev_list_standard = <<>>
    /\ chn_list_standard = <<>>
    /\ data = DataNone
    /\ out = NoOut
    /\ err = NoErr
    /\ handles = {}
    /\ io = <<>>
    /\ stages = <<>>

\* load(file, channels, devices, ...) is called; line 124: _file_type(file)
Call ==
    /\ pc = "idle"
    /\ \E f \in Paths, d \in DevArgs, c \in ChnArgs, g \in BOOLEAN :
        /\ file' = f
        /\ args' = [devices |-> d, channels |-> c, get_header |-> g]
        /\ devices' = d
        /\ channels' = c
        /\ file_type' = FileType(f)
        /\ io' = SniffReads(f)
    /\ pc' = "shape"
    /\ content' = NoContent
    /\ header' = <<>>
    /\ dev_list_standard' = <<>>
    /\ chn_list_standard' = <<>>
    /\ data' = DataNone
    /\ out' = NoOut
    /\ err' = NoErr
    /\ handles' = {}
    /\ stages' = <<"detect">>

\* line 127: _check_shape_and_type(devices, channels)
ShapeCheck ==
    /\ pc = "shape"
    /\ LET e == CheckShapeAndType(devices, channels)
       IN /\ err' = e
          /\ pc' = Goto(e, "header")
          /\ stages' = Passed(e, "shape")
    /\ UNCHANGED <<file, args, file_type, devices, channels, content, header,
                   dev_list_standard, chn_list_standard, data, out, handles, io>>

\* line 133: header = read_header(file), which detects the type again
ReadHeader ==
    /\ pc = "header"
    /\ \E c \in Contents(file_type) :
        LET r == ReadHeaderResult(file_type, c)
        IN /\ content' = c
           /\ header' = r.header
           /\ err' = r.err
           /\ handles' = handles \cup r.open
           /\ io' = io \o SniffReads(file) \o r.reads
           /\ pc' = Goto(r.err, "devcheck")
           /\ stages' = Passed(r.err, "header")
    /\ UNCHANGED <<file, args, file_type, devices, channels,
                   dev_list_standard, chn_list_standard, data, out>>

\* lines 139-148: the omitted devices are substituted, then _check_dev_type
DevCheck ==
    /\ pc = "devcheck"
    /\ LET devs == ResolvedDevices(devices, header)
           r == CheckDevType(devs, DevList(header))
       IN /\ devices' = devs
          /\ channels' = ResolvedChannels(devices, channels)
          /\ dev_list_standard' = r.out
          /\ err' = r.err
          /\ pc' = Goto(r.err, "chncheck")
          /\ stages' = Passed(r.err, "dev")
    /\ UNCHANGED <<file, args, file_type, content, header, chn_list_standard,
                   data, out, handles, io>>

\* lines 151-152: _available_channels, then _check_chn_type
ChnCheck ==
    /\ pc = "chncheck"
    /\ LET chn_dict == AvailableChannels(devices.l, header)
           r == CheckChnType(channels, chn_dict)
       IN /\ chn_list_standard' = r.out
          /\ err' = r.err
          /\ pc' = Goto(r.err, "extract")
          /\ stages' = Passed(r.err, "chn")
    /\ UNCHANGED <<file, args, file_type, devices, channels, content, header,
                   dev_list_standard, data, out, handles, io>>

\* an extraction that knows a file by its extension only
ExtractResultByExtension(ftype, cont, devs, chns, hdr) ==
    IF ftype = "txt" THEN
        LET r == LoadTxtFile(cont, devs, chns, hdr)
        IN [data |-> IF r.err = NoErr THEN DataDict(r.out) ELSE DataNone,
            err |-> r.err, reads |-> r.reads, opened |-> {}]
    ELSE IF ftype = "h5" THEN
        LET r == LoadH5File(cont, devs, chns)
        IN [data |-> IF r.err = NoErr THEN DataDict(r.out) ELSE DataNone,
            err |-> r.err, reads |-> r.reads, opened |-> {"h5_data"}]
    ELSE [data |-> DataNone, err |-> NoErr, reads |-> <<>>, opened |-> {}]

\* lines 157-172: the data is read by the extractor of the file type
ExtractResult(ftype, cont, devs, chns, hdr) ==
    IF ftype \in TxtTypes THEN
        LET r == LoadTxtFile(cont, devs, chns, hdr)
        IN [data |-> IF r.err = NoErr THEN DataDict(r.out) ELSE DataNone,
            err |-> r.err, reads |-> r.reads, opened |-> {}]
    ELSE IF ftype \in H5Types THEN
        LET r == LoadH5File(cont, devs, chns)
        IN [data |-> IF r.err = NoErr THEN DataDict(r.out) ELSE DataNone,
            err |-> r.err, reads |-> r.reads, opened |-> {"h5_data"}]
    ELSE IF ftype \in EdfTypes THEN
        [data |-> DataNone, err |-> Raise("RuntimeWarning", "load", "edf not available yet"),
         reads |-> <<>>, opened |-> {}]
    ELSE [data |-> DataNone, err |-> NoErr, reads |-> <<>>, opened |-> {}]

\* The container _load_h5 opens is never closed by the code: when _load_h5
\* raises it stays open; once _load_h5 has returned, whether it is still
\* open is up to the garbage collector.
Extract ==
    /\ pc = "extract"
    /\ LET r == ExtractResult(file_type, content, dev_list_standard,
                              chn_list_standard, header)
       IN /\ data' = r.data
          /\ err' = r.err
          /\ io' = io \o r.reads
          /\ pc' = Goto(r.err, "assemble")
          /\ stages' = Passed(r.err, "extract")
          /\ \E kept \in (IF r.err = NoErr THEN SUBSET r.opened ELSE {r.opened}) :
                handles' = handles \cup kept
    /\ UNCHANGED <<file, args, file_type, devices, channels, content, header,
                   dev_list_standard, chn_list_standard, out>>

\* lines 236-241: the output, with the header when get_header is True
Assemble ==
    /\ pc = "assemble"
    /\ out' = IF args.get_header
              THEN [t |-> "tuple", data |-> data, header |-> header]
              ELSE [t |-> "data", data |-> data]
    /\ pc' = "done"
    /\ stages' = Append(stages, "assemble")
    /\ UNCHANGED <<file, args, file_type, devices, channels, content, header,
                   dev_list_standard, chn_list_standard, data, err, handles, io>>

\* the call is over (returned or raised): its caller goes on, nothing of the
\* call is kept
Return ==
    /\ pc = "done"
    /\ pc' = "idle"
    /\ file' = [parts |-> <<>>, mime |-> ""]
    /\ args' = [devices |-> PyNone, channels |-> PyNone, get_header |-> FALSE]
    /\ file_type' = ""
    /\ devices' = PyNone
    /\ channels' = PyNone
    /\ content' = NoContent
    /\ header' = <<>>
    /\ dev_list_standard' = <<>>
    /\ chn_list_standard' = <<>>
    /\ data' = DataNone
    /\ out' = NoOut
    /\ err' = NoErr
    /\ handles' = {}
    /\ io' = <<>>
    /\ stages' = <<>>

Next ==
    Call \/ ShapeCheck \/ ReadHeader \/ DevCheck \/ ChnCheck \/ Extract \/ Assemble
    \/ Return

Spec == Init /\ [][Next]_vars

(***************************************************************************)
(* Properties                                                              *)
(***************************************************************************)
\* load has returned a value to its caller
Returned == out # NoOut

\* the call is over with a dataset read from a text file
TxtDataset == pc \in {"assemble", "done"} /\ file_type \in TxtTypes /\ data.t = "dict"

\* the key "CH<id>" of each channel id of the files above
KeyOfChannel == <<"CH1", "CH2", "CH3">>

\* the column c (from 0) of a text file: its cell in every sample row
ColumnOf(cont, c) == [r \in 1..cont.rows |-> Cell(r, c)]

\* C1: for a text file, every value stored under "CH<id>" of a device holds
\* the samples of the one file column column_labels[id] of that device, and
\* nothing else, whatever other channels are requested for the device.
C1_EachKeyHoldsItsColumn ==
    TxtDataset =>
        \A d \in DOMAIN data.d :
            \A chn \in DOMAIN HeaderOf(header, d).labels :
                KeyOfChannel[chn] \in DOMAIN data.d[d] =>
                    data.d[d][KeyOfChannel[chn]].flat
                        = ColumnOf(content, HeaderOf(header, d).labels[chn].i)

\* the arguments are two lists of different lengths
LengthsDiffer ==
    /\ args.devices.t = "list"
    /\ args.channels.t = "list"
    /\ Len(args.devices.l) # Len(args.channels.l)

\* C2: when devices has N elements and channels M # N elements, load fails
\* with the selection error of the shape check, and no header read and no
\* extraction read of the file is done.
C2_LengthMismatchFailsBeforeReads ==
    (LengthsDiffer /\ pc \notin {"idle", "shape"}) =>
        /\ pc = "done"
        /\ err.exc = "RuntimeError"
        /\ err.at = "_check_shape_and_type"
        /\ "header" \notin Range(io)
        /\ "extract" \notin Range(io)
        /\ ~Returned

\* the channel ids requested for the k-th requested device, when the
\* selection names devices; the flat list when devices is omitted
RequestedFor(k) ==
    IF args.devices.t = "list" THEN args.channels.l[k]
    ELSE args.channels

\* some requested channel id of some requested device is not a key of the
\* device's column labels (the selection has passed the shape and device checks)
UnknownChannelRequested ==
    /\ "dev" \in Range(stages)
    /\ args.channels.t = "list"
    /\ \E k \in 1..Len(dev_list_standard) :
        /\ args.devices.t = "list" \/ k = 1
        /\ RequestedFor(k).t = "list"
        /\ \E n \in 1..Len(RequestedFor(k).l) :
            /\ RequestedFor(k).l[n].t = "int"
            /\ RequestedFor(k).l[n].i
                 \notin DOMAIN HeaderOf(header, dev_list_standard[k].s).labels

\* C3: a call that requests, for some requested device, a channel id that
\* the device does not have ends in the error of the channel-membership check
\* and returns no dataset.
C3_UnknownChannelFailsValidation ==
    (UnknownChannelRequested /\ pc \notin {"chncheck"}) =>
        /\ pc = "done"
        /\ err.at = "_check_chn_type"
        /\ ~Returned

\* C4: when the call is over, however it ended, no file handle that it
\* opened is still open.
C4_NoHandleOpenAfterCall == pc = "done" => handles = {}

\* the error read_header raises for a type that is none of its formats
UnrecognizedTypeError == ReadHeaderResult("csv", NoContent).err

\* C5: a file detected as "edf" or "octet-stream" makes load fail at the
\* header-parsing stage, with an error of its own (not the one of an
\* unrecognized type), whatever devices and channels are; nothing is returned.
C5_ClinicalFormatFailsDistinctly ==
    (file_type \in EdfTypes /\ pc = "done") =>
        /\ ~Returned
        /\ err.at = "read_header"
        /\ err # UnrecognizedTypeError

\* q is the sequence s in some order
IsArrangementOf(q, s) == Len(q) = Len(s) /\ Range(q) = Range(s)

\* the selection names every device of the header, in header order, and for
\* each all of its channels, in some order
FullSelection ==
    /\ "header" \in Range(stages)
    /\ args.devices = PyList(DevList(header))
    /\ args.channels.t = "list"
    /\ Len(args.channels.l) = Len(header)
    /\ \A k \in 1..Len(header) :
        /\ args.channels.l[k].t = "list"
        /\ IsInstanceAllInt(args.channels.l[k])
        /\ IsArrangementOf([n \in 1..Len(args.channels.l[k].l) |-> args.channels.l[k].l[n].i],
                           header[k].keys)

\* what load reads from the file when devices and channels are both omitted
OmittedData(ftype, cont) ==
    LET h == ReadHeaderResult(ftype, cont).header
        devs == CheckDevType(ResolvedDevices(PyNone, h), DevList(h)).out
        chns == CheckChnType(ResolvedChannels(PyNone, PyNone),
                             AvailableChannels(devs, h)).out
    IN ExtractResult(ftype, cont, devs, chns, h).data

\* the number of samples of a value: its length along the first axis (one
\* for a value without axes)
SampleCount(v) == IF v.shape = <<>> THEN 1 ELSE v.shape[1]

\* the devices of a dataset, the keys of each and the sample count of each key
Summary(dat) ==
    IF dat.t = "dict"
    THEN [t |-> "dict",
          n |-> [d \in DOMAIN dat.d |->
                    [key \in DOMAIN dat.d[d] |-> SampleCount(dat.d[d][key])]]]
    ELSE [t |-> "None"]

\* C6: a call that selects every device of the file and, for each, all of
\* its channels in any order ends with a dataset that has the devices, the
\* keys per device and the sample count per key of the dataset read with
\* devices and channels omitted.
C6_FullSelectionEqualsOmitted ==
    (FullSelection /\ pc = "done") =>
        Summary(data) = Summary(OmittedData(file_type, content))

\* the devices named by a list of device ids
MacsOf(devs) == {devs[k].s : k \in 1..Len(devs)}

\* the channel ids requested for device mac: those of every place the device
\* has in the resolved device list
ChannelsFor(mac) ==
    UNION {IF k <= Len(chn_list_standard) THEN Range(chn_list_standard[k]) ELSE {}
           : k \in {j \in 1..Len(dev_list_standard) : dev_list_standard[j].s = mac}}

\* C7: the dataset load returns, from a text file or from an h5 file, has
\* exactly the resolved devices as keys and, under each device, exactly the
\* keys "CH<id>" of the resolved channel ids of that device.
C7_ExactlyRequestedKeys ==
    (Returned /\ data.t = "dict") =>
        /\ Len(chn_list_standard) = Len(dev_list_standard)
        /\ DOMAIN data.d = MacsOf(dev_list_standard)
        /\ \A mac \in DOMAIN data.d :
              DOMAIN data.d[mac] = {KeyOfChannel[chn] : chn \in ChannelsFor(mac)}

\* a dataset with two keys under one device and one under another has been
\* returned from an h5 file for a selection that names devices and channels
C7_Witness ==
    /\ Returned
    /\ file_type \in H5Types
    /\ args.devices.t = "list"
    /\ DOMAIN data.d = {"AA:BB", "CC:DD"}
    /\ DOMAIN data.d["AA:BB"] = {"CH1", "CH2"}
    /\ DOMAIN data.d["CC:DD"] = {"CH1"}

\* the four stages that precede extraction, in the order load runs them
BeforeExtraction == <<"detect", "shape", "header", "dev", "chn">>

\* the places where the four checks raise
ValidationPlaces ==
    {"_check_shape_and_type", "read_header", "_check_dev_type", "_check_chn_type"}

\* C8: an extraction read is done only after the shape check, the header
\* parse, the device check and the channel check have all completed without
\* error, and a call that failed in one of them returns nothing.
C8_NoExtractionBeforeValidation ==
    /\ "extract" \in Range(io) =>
          /\ Len(stages) >= Len(BeforeExtraction)
          /\ SubSeq(stages, 1, Len(BeforeExtraction)) = BeforeExtraction
    /\ pc \in {"extract", "assemble"} => err = NoErr
    /\ err.at \in ValidationPlaces =>
          /\ pc = "done"
          /\ "extract" \notin Range(io)
          /\ ~Returned
          /\ data = DataNone

\* a call has failed in the channel check after its header was read
C8_Witness ==
    /\ pc = "done"
    /\ err.at = "_check_chn_type"
    /\ "header" \in Range(io)
    /\ "extract" \notin Range(io)

\* family (a): devices unset, channels unset or a flat list of integers
FamilyA(d, c) ==
    /\ d.t = "None"
    /\ \/ c.t = "None"
       \/ c.t = "list" /\ \A k \in 1..Len(c.l) : c.l[k].t = "int"

\* family (b): devices a list of strings, channels a list of the same length
\* whose every element is a list of integers
FamilyB(d, c) ==
    /\ d.t = "list"
    /\ \A k \in 1..Len(d.l) : d.l[k].t = "str"
    /\ c.t = "list"
    /\ Len(c.l) = Len(d.l)
    /\ \A k \in 1..Len(c.l) :
          c.l[k].t = "list" /\ \A n \in 1..Len(c.l[k].l) : c.l[k].l[n].t = "int"

\* C9: the shape/type check accepts a (devices, channels) pair if and only
\* if the pair is of family (a) or of family (b); every other pair is
\* rejected with the validation error of the check.
C9_ShapeCheckAcceptsExactlyFamilies ==
    pc \notin {"idle", "shape"} =>
        /\ "shape" \in Range(stages)
              <=> (FamilyA(args.devices, args.channels) \/ FamilyB(args.devices, args.channels))
        /\ "shape" \notin Range(stages)
              => err.exc = "RuntimeError" /\ err.at = "_check_shape_and_type"

\* the channel ids validated for the i-th resolved device: those requested
\* for it, or all of its channels when channels is omitted
ValidatedFor(i) ==
    IF channels.t = "None" THEN HeaderOf(header, dev_list_standard[i].s).keys
    ELSE [n \in 1..Len(channels.l[i].l) |-> channels.l[i].l[n].i]

\* C10: once the channel check has succeeded, the resolved channel list is
\* as long as the resolved device list and its i-th entry is the channel
\* list validated for the i-th resolved device, also when a device is named
\* more than once.
C10_ResolvedChannelsMatchDevices ==
    "chn" \in Range(stages) =>
        /\ Len(chn_list_standard) = Len(dev_list_standard)
        /\ \A i \in 1..Len(dev_list_standard) :
              chn_list_standard[i] = ValidatedFor(i)

\* the devices of the file read, in the order the file lists them
FileMacs ==
    IF content.kind = "txt" THEN [k \in 1..Len(content.raw) |-> PyStr(content.raw[k].mac)]
    ELSE IF content.kind = "h5"
         THEN [k \in 1..Len(content.groups) |-> PyStr(content.groups[k].mac)]
    ELSE <<>>

\* a device was requested that the parsed header does not have
UnknownDeviceRequested ==
    /\ args.devices.t = "list"
    /\ "header" \in Range(stages)
    /\ \E k \in 1..Len(args.devices.l) : args.devices.l[k] \notin Range(FileMacs)

\* C11: with devices given, the call gets past the device check only if
\* every requested device is a device of the parsed header, and a request of
\* an unknown device ends the call in the device check's error, before any
\* channel data is read and without a return; with devices omitted, the
\* resolved device list is the list of the header's devices, in header order.
C11_DeviceMembership ==
    /\ (args.devices.t = "list" /\ "dev" \in Range(stages)) =>
          /\ \A k \in 1..Len(args.devices.l) : args.devices.l[k] \in Range(FileMacs)
          /\ dev_list_standard = args.devices.l
    /\ (UnknownDeviceRequested /\ pc # "devcheck") =>
          /\ pc = "done"
          /\ err.exc = "RuntimeError"
          /\ err.at = "_check_dev_type"
          /\ "extract" \notin Range(io)
          /\ data = DataNone
          /\ ~Returned
    /\ (args.devices.t = "None" /\ "dev" \in Range(stages)) =>
          /\ devices = PyList(FileMacs)
          /\ dev_list_standard = FileMacs

\* a call asking for a known device and then an unknown one has failed in
\* the device check
C11_Witness ==
    /\ pc = "done"
    /\ UnknownDeviceRequested
    /\ Len(args.devices.l) = 2
    /\ args.devices.l[1] \in Range(FileMacs)
    /\ err.at = "_check_dev_type"

\* a call with devices omitted on a file of two devices is past the device
\* check
C11_WitnessOmitted ==
    /\ args.devices.t = "None"
    /\ "dev" \in Range(stages)
    /\ Len(dev_list_standard) = 2

\* the devices of the file read as the file describes them, in file order
FileDevices ==
    IF content.kind = "txt" THEN content.raw
    ELSE IF content.kind = "h5" THEN content.groups
    ELSE <<>>

\* C12: in every header read_header has returned, of a text file or of an
\* h5 file, the keys of each device's column labels are exactly the channels
\* of that device: every channel has a locator, every locator a channel.
C12_ColumnLabelKeysAreChannels ==
    "header" \in Range(stages) =>
        /\ Len(header) = Len(FileDevices)
        /\ \A k \in 1..Len(header) :
              /\ header[k].mac = FileDevices[k].mac
              /\ DOMAIN header[k].labels = Range(FileDevices[k].channels)
              /\ Range(header[k].channels) = Range(FileDevices[k].channels)

\* the header of a text file of two devices, one of two channels, is parsed
C12_Witness ==
    /\ "header" \in Range(stages)
    /\ content.kind = "txt"
    /\ Len(header) = 2
    /\ \E k \in 1..2 : Len(FileDevices[k].channels) = 2

\* the header of an h5 file whose device has three channels is parsed
C12_WitnessH5 ==
    /\ "header" \in Range(stages)
    /\ content.kind = "h5"
    /\ Len(header) = 1
    /\ Len(FileDevices[1].channels) = 3

\* C13: a call that returns, returns a dataset mapping and never None: the
\* dataset alone when get_header is not True, the pair of the dataset and the
\* header when it is True; the header is the one read_header produced, which
\* no later stage has changed.
C13_ReturnsDatasetAndParsedHeader ==
    /\ Returned =>
          /\ out.data.t = "dict"
          /\ out.data = data
          /\ ~args.get_header => out.t = "data"
          /\ args.get_header =>
                /\ out.t = "tuple"
                /\ out.header = ReadHeaderResult(file_type, content).header
    /\ "header" \in Range(stages) => header = ReadHeaderResult(file_type, content).header

\* a call with get_header True has returned the data of a file recognised by
\* its content type, with a non-empty header
C13_Witness ==
    /\ Returned
    /\ args.get_header
    /\ file_type \in {"plain", "x-hdf"}
    /\ out.t = "tuple"
    /\ out.header # <<>>
    /\ out.data.t = "dict"

\* a call with get_header False has returned
C13_WitnessAlone ==
    /\ Returned
    /\ ~args.get_header
    /\ out.t = "data"

\* the number of columns the devices listed before the k-th have together
RECURSIVE ColumnsBefore(_, _)
ColumnsBefore(raw, k) ==
    IF k <= 1 THEN 0 ELSE ColumnsBefore(raw, k - 1) + Len(raw[k - 1].column)

\* the place (from 0) of a label in a column list that names it once
PlaceOf(column, label) ==
    CHOOSE i \in 0..(Len(column) - 1) : column[i + 1] = label

\* the locator the parsed header gives to channel chn of the k-th device
Locator(k, chn) == header[k].labels[chn].i

\* the (device, channel) pairs of the parsed header
LocatedPairs ==
    UNION {{<<k, chn>> : chn \in DOMAIN header[k].labels} : k \in 1..Len(header)}

\* C14: in the header parsed from a text file, the locator of every channel
\* of every device is the number of columns of the devices listed before it
\* plus the place of the channel's label among the device's own columns; so
\* the locators of a device lie in the range of its own columns and no two
\* (device, channel) pairs share a locator.
C14_LocatorIsOffsetPlusLocalIndex ==
    ("header" \in Range(stages) /\ content.kind = "txt") =>
        /\ \A k \in 1..Len(content.raw) : \A n \in 1..Len(content.raw[k].channels) :
              Locator(k, content.raw[k].channels[n])
                  = ColumnsBefore(content.raw, k)
                    + PlaceOf(content.raw[k].column, content.raw[k].label[n])
        /\ \A p \in LocatedPairs :
              /\ Locator(p[1], p[2]) >= ColumnsBefore(content.raw, p[1])
              /\ Locator(p[1], p[2]) < ColumnsBefore(content.raw, p[1] + 1)
        /\ \A p, q \in LocatedPairs :
              p # q => Locator(p[1], p[2]) # Locator(q[1], q[2])

\* the header of a text file of two devices is parsed, and a channel of the
\* second device has a locator past the columns of the first
C14_Witness ==
    /\ "header" \in Range(stages)
    /\ content.kind = "txt"
    /\ Len(header) = 2
    /\ \E p \in LocatedPairs :
          /\ p[1] = 2
          /\ Locator(2, p[2]) > Len(content.raw[1].column)

\* devices omitted and channels a flat list of integers
FlatChannelsNoDevices ==
    /\ args.devices.t = "None"
    /\ args.channels.t = "list"
    /\ \A k \in 1..Len(args.channels.l) : args.channels.l[k].t = "int"

\* the call is over the channel check of a parsed header of two devices or more
SeveralDevicesChecked ==
    /\ "header" \in Range(stages)
    /\ Len(FileDevices) >= 2
    /\ pc \notin {"devcheck", "chncheck"}

\* the call has failed in the channel check, before any extraction read
FailedInChannelCheck ==
    /\ pc = "done"
    /\ err.at = "_check_chn_type"
    /\ "extract" \notin Range(io)
    /\ ~Returned

\* C15: with devices omitted and channels a flat list of integers, a call
\* returns only on a file whose header has exactly one device, the flat list
\* being the channels of that device; on a file of two devices or more it
\* fails in the channel check, before any extraction read, and returns
\* nothing.
C15_FlatChannelsNeedOneDevice ==
    FlatChannelsNoDevices =>
        /\ Returned =>
              /\ Len(FileDevices) = 1
              /\ chn_list_standard
                    = <<[k \in 1..Len(args.channels.l) |-> args.channels.l[k].i]>>
        /\ SeveralDevicesChecked => FailedInChannelCheck

\* the same on the files that have a device: the call returns only when the
\* file has one device
C15_OnFilesWithADevice ==
    (FlatChannelsNoDevices /\ Len(FileDevices) >= 1) =>
        /\ Returned =>
              /\ Len(FileDevices) = 1
              /\ chn_list_standard
                    = <<[k \in 1..Len(args.channels.l) |-> args.channels.l[k].i]>>
        /\ SeveralDevicesChecked => FailedInChannelCheck

\* a flat list of channels was passed for a file of two devices and the call
\* has failed in the channel check
C15_WitnessSeveral ==
    /\ FlatChannelsNoDevices
    /\ args.channels.l # <<>>
    /\ SeveralDevicesChecked
    /\ FailedInChannelCheck

\* a flat list of channels was passed for a file of one device and the call
\* has returned
C15_WitnessOne ==
    /\ FlatChannelsNoDevices
    /\ args.channels.l # <<>>
    /\ Len(FileDevices) = 1
    /\ Returned
====
